---- MODULE Spec2Model ----
(***************************************************************************)
(* Validation-Logger firmware (ATmega328P): Timer1 input-capture ISR, the  *)
(* 16 -> 32 bit overflow extension, the capture ring buffer and the        *)
(* mainline logging loop of main().                                        *)
(*                                                                         *)
(* 32-bit quantities (uint32_t) are kept as records [hi, lo] of two 16-bit *)
(* halves, value = hi * 65536 + lo, so that every operation keeps its C    *)
(* width and wraps modulo 2^32.                                            *)
(***************************************************************************)
EXTENDS Integers, Naturals, Sequences, FiniteSets, TLC

(* ------------------------------ bounds --------------------------------- *)

\* log2 of the ring size used for checking (CAPTURE_BUFFER_SIZE = 2^BufferBits)
BufferBits == 2

\* qualifying edges the input produces, and steps of the counter from one
\* observed value to the next, for the capture module with a caller
MaxCaptures == 5

MaxTicks == 4

\* the same for the study of the overflow extension
MaxClockCaptures == 2

MaxClockTicks == 6

\* the same while main() runs
MaxRunCaptures == 2

MaxRunTicks == 4

\* steps of the counter while main() runs across the wrap of the drop counter
MaxDropTicks == 2

\* edges and steps of the counter while main() runs under fair scheduling
MaxLiveCaptures == 2

MaxLiveTicks == 2

\* number of lines the transmitter accepts before it stops accepting
MaxOut == 4

(* -------------------------- program constants -------------------------- *)

\* uint16_t modulus (TCNT1, ICR1, timer1_overflow_hi, dropped_events)
U16 == 65536

\* boundary guard threshold 0x8000u
HALF_RANGE == 32768

\* CPU clock, ticks per second (build flag; the header documents 8 MHz)
F_CPU == 8000000

\* divisor of the 50 ms debounce window: F_CPU / 20UL
SW2_DEBOUNCE_DIV == 20

CAPTURE_EDGE_RISING == 1

CAPTURE_EDGE_FALLING == 0

\* number of counter wraps after which the 32-bit tick count is about to wrap
LateEpoch == 65535

(* ------------------------------ arithmetic ----------------------------- *)

RECURSIVE BitAnd(_, _)
BitAnd(a, b) ==
    IF a = 0 \/ b = 0 THEN 0
    ELSE (a % 2) * (b % 2) + 2 * BitAnd(a \div 2, b \div 2)

RECURSIVE Pow2(_)
Pow2(n) == IF n = 0 THEN 1 ELSE 2 * Pow2(n - 1)

\* a uint32_t from a natural below 2^31
U32(n) == [hi |-> (n \div U16) % U16, lo |-> n % U16]

\* uint32_t addition, modulo 2^32
Add32(a, b) ==
    LET lo == a.lo + b.lo
    IN  [hi |-> (a.hi + b.hi + (lo \div U16)) % U16, lo |-> lo % U16]

\* uint32_t subtraction, modulo 2^32
Sub32(a, b) ==
    LET borrow == IF a.lo < b.lo THEN 1 ELSE 0
    IN  [hi |-> (a.hi - b.hi - borrow + U16) % U16,
         lo |-> (a.lo - b.lo + U16) % U16]

\* uint32_t comparison a >= b
Geq32(a, b) == a.hi > b.hi \/ (a.hi = b.hi /\ a.lo >= b.lo)

Zero32 == [hi |-> 0, lo |-> 0]

CAPTURE_BUFFER_SIZE == Pow2(BufferBits)

CAPTURE_BUFFER_MASK == CAPTURE_BUFFER_SIZE - 1

SW2_DEBOUNCE_TICKS == F_CPU \div SW2_DEBOUNCE_DIV

(* ------------------------------- state --------------------------------- *)

VARIABLES
    \* Timer1 hardware
    TCNT1,               \* free-running 16-bit counter
    TOV1,                \* TIFR1.TOV1, overflow pending
    ICF1,                \* TIFR1.ICF1, capture pending
    ICR1,                \* latched counter value of the last qualifying edge
    ICES1,               \* TCCR1B.ICES1, armed edge (TRUE = rising)
    sreg_I,              \* SREG global interrupt enable
    \* timer1_capture.c statics
    capture_buffer,
    buffer_head,
    buffer_tail,
    dropped_events,
    timer1_overflow_hi,
    \* timer1_capture_pop locals
    ok,
    tail,
    sreg_save,
    \* timer1_capture_available: the value it returned to the caller, who
    \* forgets it when the pop that follows has returned
    available,
    \* main() locals
    pc,
    callsite,
    logging,
    sw2_prev,
    sw2_now,
    sw2_lockout_until,
    last_tick,
    next_heartbeat,
    now,
    out_event,
    led,
    \* transmitter output, one entry per line
    out,
    \* history (not program state)
    epoch,               \* counter wraps since the counter was started
    latch_at,            \* true time [hi, lo] at which ICR1 was latched
    env,                 \* what the surroundings may still do
    stored,              \* events the capture ISR stored, in order
    isr,                 \* the latest capture ISR invocation
    popped,              \* events returned by successful pops
    lat,                 \* interrupt latencies seen so far
    hist,                \* mainline history record
    acct                 \* bookkeeping of captures, drops and calls

hwVars    == <<TCNT1, TOV1, ICF1, ICR1, ICES1>>
queueVars == <<capture_buffer, buffer_head, buffer_tail, dropped_events>>
popVars   == <<ok, tail, sreg_save>>
mainVars  == <<logging, sw2_prev, sw2_now, sw2_lockout_until, last_tick,
               next_heartbeat, now, led>>
histVars  == <<epoch, latch_at, env, stored, isr, lat>>

vars == <<TCNT1, TOV1, ICF1, ICR1, ICES1, sreg_I, capture_buffer, buffer_head,
          buffer_tail, dropped_events, timer1_overflow_hi, ok, tail, sreg_save,
          pc, callsite, logging, sw2_prev, sw2_now, sw2_lockout_until,
          last_tick, next_heartbeat, now, out_event, led, out, epoch, latch_at,
          env, stored, isr, popped, lat, hist, available, acct>>

ZeroEvent == [ticks |-> Zero32, edge |-> 0]


\* one transmitted line; marker lines carry no payload
Line(kind) ==
    [kind |-> kind, ticks |-> Zero32, edge |-> "-", dt |-> Zero32, dropped |-> 0]

RowLine(ticks, edge, dt, dropped) ==
    [kind |-> "row", ticks |-> ticks, edge |-> edge, dt |-> dt, dropped |-> dropped]

\* true time of the running counter as a pair [wraps, counter]
TrueNow == [hi |-> epoch, lo |-> TCNT1]

\* ticks elapsed from true time a to true time b (a few periods at most)
Elapsed(a, b) == (b.hi - a.hi) * U16 + (b.lo - a.lo)

NoTime == [hi |-> 0 - 1, lo |-> 0]

\* no call of timer1_capture_pop is in progress
NoEntry == [head |-> 0 - 1]

(* ------------------------------- Init ---------------------------------- *)

\* statics, timer1_capture_init(), sei() and the locals of main()
InitCommon ==
    /\ ICES1 = TRUE
    /\ sreg_I = TRUE
    /\ capture_buffer = [i \in 0..(CAPTURE_BUFFER_SIZE - 1) |-> ZeroEvent]
    /\ buffer_head = 0 /\ buffer_tail = 0 /\ dropped_events = 0
    /\ ok = FALSE /\ tail = 0 /\ sreg_save = TRUE
    /\ callsite = "drain"
    /\ logging = FALSE /\ sw2_prev = TRUE /\ sw2_now = TRUE
    /\ sw2_lockout_until = Zero32 /\ last_tick = Zero32
    /\ now = Zero32 /\ out_event = ZeroEvent /\ led = FALSE
    /\ out = <<>>
    /\ stored = <<>> /\ popped = <<>>
    /\ isr = [n |-> 0, ev |-> ZeroEvent, kept |-> FALSE, latch |-> NoTime,
              prev |-> Zero32]
    /\ available = FALSE
    /\ acct = [gap |-> <<>>, since_store |-> FALSE,
               pop_gap |-> <<>>, since_pop |-> FALSE, entry |-> NoEntry]
    /\ lat = [capt_late |-> FALSE, ovf_late |-> FALSE, wrap_lost |-> FALSE]
    /\ hist = [n_accept |-> 0, last_accept |-> NoTime, bounce |-> FALSE,
               run_floor |-> 0, stale |-> 0, run_has_row |-> FALSE,
               row_idx |-> 0, alive_at |-> NoTime, alive_short |-> FALSE,
               alive_missed |-> FALSE]

\* Timer1 as timer1_capture_init() leaves it: counter 0, no flag pending
InitTimer ==
    /\ TCNT1 = 0 /\ TOV1 = FALSE /\ ICF1 = FALSE /\ ICR1 = 0
    /\ latch_at = NoTime

\* main() entering for (;;) right after timer1_capture_init() and sei()
Init ==
    /\ InitCommon
    /\ InitTimer
    /\ pc = "loop"
    /\ timer1_overflow_hi = 0
    /\ epoch = 0
    /\ next_heartbeat = Zero32
    /\ env = [edges |-> MaxRunCaptures, ticks |-> MaxRunTicks, prompt |-> TRUE]

\* the capture module right after timer1_capture_init(), driven by a caller
\* that may call its functions at any time
InitCapture ==
    /\ InitCommon
    /\ InitTimer
    /\ pc = "client"
    /\ timer1_overflow_hi = 0
    /\ epoch = 0
    /\ next_heartbeat = Zero32
    /\ env = [edges |-> MaxCaptures, ticks |-> MaxTicks, prompt |-> FALSE]

\* the same with fewer edges and more time, for the overflow extension
InitClock ==
    /\ InitCommon
    /\ InitTimer
    /\ pc = "client"
    /\ timer1_overflow_hi = 0
    /\ epoch = 0
    /\ next_heartbeat = Zero32
    /\ env = [edges |-> MaxClockCaptures, ticks |-> MaxClockTicks,
              prompt |-> FALSE]

\* The same firmware half a counter period after start, Idle, no edge and no
\* press having occurred so far; the first iteration has emitted its
\* heartbeat at tick 0 and scheduled the next one.
InitLive ==
    /\ InitCommon
    /\ pc = "loop"
    /\ TCNT1 = HALF_RANGE /\ TOV1 = FALSE /\ ICF1 = FALSE /\ ICR1 = 0
    /\ latch_at = NoTime
    /\ env = [edges |-> MaxLiveCaptures, ticks |-> MaxLiveTicks, prompt |-> TRUE]
    /\ timer1_overflow_hi = 0
    /\ epoch = 0
    /\ next_heartbeat = U32(F_CPU)

\* The same firmware half a counter period before its 32-bit tick count
\* wraps, no edge and no press having occurred so far: the overflow count
\* stands at 0xFFFF, the counter at half range, and the heartbeat of the
\* previous iteration scheduled the next one F_CPU ticks after tick
\* 0xFFFF7FFF.
InitLate ==
    /\ InitCommon
    /\ pc = "loop"
    /\ TCNT1 = HALF_RANGE /\ TOV1 = FALSE /\ ICF1 = FALSE /\ ICR1 = 0
    /\ latch_at = NoTime
    /\ env = [edges |-> MaxRunCaptures, ticks |-> MaxRunTicks, prompt |-> TRUE]
    /\ timer1_overflow_hi = LateEpoch
    /\ epoch = LateEpoch
    /\ next_heartbeat = Add32([hi |-> LateEpoch, lo |-> HALF_RANGE - 1], U32(F_CPU))

(* ------------------------------ hardware ------------------------------- *)

\* counter values at which the model observes the free-running counter
CounterPoints == {0, HALF_RANGE - 1, HALF_RANGE, U16 - 1}

NextPoint(c) ==
    IF c = U16 - 1 THEN 0
    ELSE CHOOSE p \in CounterPoints :
            p > c /\ \A q \in CounterPoints : q > c => p <= q

\* an interrupt that is pending and enabled is taken within a few cycles
Dispatchable == sreg_I /\ (ICF1 \/ TOV1)

\* Timer1 counts on to the next observed value; a wrap from 0xFFFF to 0 sets
\* TOV1. Where interrupts are served promptly (env.prompt), more than one
\* tick passes only while interrupts are enabled and none is pending.
Tick ==
    LET c == NextPoint(TCNT1)
        wrap == c < TCNT1
    IN  /\ env.ticks > 0
        /\ (env.prompt /\ c - TCNT1 > 1) => (sreg_I /\ ~Dispatchable)
        /\ env' = [env EXCEPT !.ticks = @ - 1]
        /\ TCNT1' = c
        /\ TOV1' = (TOV1 \/ wrap)
        /\ epoch' = IF wrap THEN epoch + 1 ELSE epoch
        /\ lat' = [lat EXCEPT
                     !.ovf_late = @ \/ (TOV1 /\ (wrap \/ c >= HALF_RANGE)),
                     !.wrap_lost = @ \/ (TOV1 /\ wrap)]
        /\ UNCHANGED <<available, acct, ICF1, ICR1, ICES1, sreg_I, queueVars, timer1_overflow_hi,
                       popVars, pc, callsite, mainVars, out_event, out,
                       latch_at, stored, isr, popped, hist>>

\* whole counter periods in the debounce window
LockoutPeriods == SW2_DEBOUNCE_TICKS \div U16

\* A quiet stretch of a run, LockoutPeriods counter periods long: no edge
\* arrives, every wrap is counted by the overflow handler as it happens, and
\* the iterations of the main loop read an unchanged switch, emit no
\* heartbeat (logging) and find the queue empty.  The stretch ends where it
\* began: at the top of the loop, at the same counter value.
QuietPeriods ==
    /\ env.ticks > 0
    /\ pc = "loop"
    /\ logging
    /\ sreg_I /\ ~ICF1 /\ ~TOV1
    /\ buffer_head = buffer_tail
    /\ env' = [env EXCEPT !.ticks = @ - 1]
    /\ epoch' = epoch + LockoutPeriods
    /\ timer1_overflow_hi' = (timer1_overflow_hi + LockoutPeriods) % U16
    /\ UNCHANGED <<available, acct, hwVars, sreg_I, queueVars, popVars, pc, callsite, mainVars,
                   out_event, out, latch_at, stored, isr, popped, lat, hist>>

\* a qualifying edge on ICP1: the hardware latches TCNT1 into ICR1, sets ICF1
EdgeLatch ==
    /\ env.edges > 0
    /\ env' = [env EXCEPT !.edges = @ - 1]
    /\ ICR1' = TCNT1
    /\ ICF1' = TRUE
    /\ latch_at' = TrueNow
    /\ UNCHANGED <<available, acct, TCNT1, TOV1, ICES1, sreg_I, queueVars, timer1_overflow_hi,
                   popVars, pc, callsite, mainVars, out_event, out,
                   epoch, stored, isr, popped, lat, hist>>


(* ------------------------- interrupt handlers -------------------------- *)

\* ISR(TIMER1_OVF_vect). TIMER1_CAPT_vect has the lower vector number, so a
\* pending capture is served first; the hardware clears TOV1 on vector entry.
OvfISR ==
    /\ sreg_I /\ TOV1 /\ ~ICF1
    /\ timer1_overflow_hi' = (timer1_overflow_hi + 1) % U16
    /\ TOV1' = FALSE
    /\ UNCHANGED <<available, acct, TCNT1, ICF1, ICR1, ICES1, sreg_I, queueVars, popVars, pc,
                   callsite, mainVars, out_event, out, histVars, popped, hist>>

\* the composition without the boundary guard
ResolveTicksNoGuard(ovf_hi, icr_ticks, tov) == [hi |-> ovf_hi, lo |-> icr_ticks]

\* the boundary guard and the 32-bit composition of the capture ISR
ResolveTicks(ovf_hi, icr_ticks, tov) ==
    LET hi == IF tov /\ icr_ticks < HALF_RANGE THEN (ovf_hi + 1) % U16 ELSE ovf_hi
    IN  [hi |-> hi, lo |-> icr_ticks]

\* an edge field that does not follow the edge sense
EdgeOfRisingOnly(ices) == CAPTURE_EDGE_RISING

\* edge recorded for an invocation that finds ICES1 = ices
EdgeOf(ices) == IF ices THEN CAPTURE_EDGE_RISING ELSE CAPTURE_EDGE_FALLING

\* next = (head + 1) & CAPTURE_BUFFER_MASK
NextIndex(i) == BitAnd(i + 1, CAPTURE_BUFFER_MASK)

\* a ring that never reports full
HasRoomAlways(next, tl) == TRUE

\* the ring has room for one more event
HasRoom(next, tl) == next # tl

\* a drop that is not counted
CountDropNever(d) == d

\* a drop counter that stops at its maximum
CountDropSaturating(d) == IF d = U16 - 1 THEN d ELSE d + 1

\* dropped_events++ on a uint16_t
CountDrop(d) == (d + 1) % U16

\* a write to TIFR1 that clears every flag of the register
TifrWriteClearsAll(flag, bit) == FALSE

\* TIFR1 = mask: a flag is cleared by writing a one to its bit, a zero
\* leaves it as it is
TifrWrite(flag, bit) == flag /\ ~bit

\* an edge sense that stays as it is
ToggleEdgeSenseNever(ices) == ices

\* TCCR1B ^= _BV(ICES1)
ToggleEdgeSense(ices) == ~ices

\* ISR(TIMER1_CAPT_vect), run to completion with interrupts masked
CaptISR ==
    /\ sreg_I /\ ICF1
    /\ LET edge == EdgeOf(ICES1)
           ticks == ResolveTicks(timer1_overflow_hi, ICR1, TOV1)
           head == buffer_head
           next == NextIndex(head)
           room == HasRoom(next, buffer_tail)
           event == [ticks |-> ticks, edge |-> edge]
       IN  /\ IF room
              THEN /\ capture_buffer' = [capture_buffer EXCEPT ![head] = event]
                   /\ buffer_head' = next
                   /\ UNCHANGED dropped_events
              ELSE /\ dropped_events' = CountDrop(dropped_events)
                   /\ UNCHANGED <<capture_buffer, buffer_head>>
           /\ stored' = IF room THEN Append(stored, event) ELSE stored
           /\ isr' = [n |-> isr.n + 1, ev |-> event, kept |-> room,
                      latch |-> latch_at, prev |-> isr.ev.ticks]
           /\ acct' = [acct EXCEPT
                         !.gap = IF room THEN Append(@, acct.since_store) ELSE @,
                         !.since_store = ~room,
                         !.since_pop = @ \/ ~room]
           /\ lat' = [lat EXCEPT !.capt_late =
                            @ \/ Elapsed(latch_at, TrueNow) >= HALF_RANGE]
    /\ ICF1' = TifrWrite(ICF1, TRUE)
    /\ TOV1' = TifrWrite(TOV1, FALSE)
    /\ ICES1' = ToggleEdgeSense(ICES1)
    /\ UNCHANGED <<available, TCNT1, ICR1, sreg_I, buffer_tail, timer1_overflow_hi,
                   popVars, pc, callsite, mainVars, out_event, out, epoch,
                   latch_at, env, popped, hist>>

(* ------------------------- timer1_capture_pop -------------------------- *)

\* interrupt-enable bit inside ATOMIC_BLOCK(ATOMIC_RESTORESTATE)
AtomicBlockI == FALSE

\* bool ok = false; ATOMIC_BLOCK entry: save SREG, cli()
PopEnter ==
    /\ pc = "pop_enter"
    /\ ok' = FALSE
    /\ sreg_save' = sreg_I
    /\ sreg_I' = AtomicBlockI
    /\ pc' = "pop_check"
    /\ acct' = [acct EXCEPT !.entry = [head |-> buffer_head, tail |-> buffer_tail,
                                       buf |-> capture_buffer,
                                       dropped |-> dropped_events,
                                       ev |-> out_event]]
    /\ UNCHANGED <<available, hwVars, queueVars, timer1_overflow_hi, tail, callsite,
                   mainVars, out_event, out, histVars, popped, hist>>

\* a pop that copies and advances without the empty test
PopCheckNoEmptyTest ==
    /\ pc = "pop_check"
    /\ pc' = "pop_copy"
    /\ UNCHANGED <<available, acct, hwVars, sreg_I, queueVars, timer1_overflow_hi,
                   popVars, callsite, mainVars, out_event, out, histVars, popped,
                   hist>>

\* if (buffer_head != buffer_tail)
PopCheck ==
    /\ pc = "pop_check"
    /\ pc' = IF buffer_head # buffer_tail THEN "pop_copy" ELSE "pop_exit"
    /\ UNCHANGED <<available, acct, hwVars, sreg_I, queueVars, timer1_overflow_hi, popVars,
                   callsite, mainVars, out_event, out, histVars, popped, hist>>

\* a pop that copies the newest slot instead of the oldest
PopCopyNewest ==
    /\ pc = "pop_copy"
    /\ tail' = buffer_tail
    /\ out_event' = capture_buffer[BitAnd(buffer_head + CAPTURE_BUFFER_MASK,
                                          CAPTURE_BUFFER_MASK)]
    /\ pc' = "pop_advance"
    /\ UNCHANGED <<available, acct, hwVars, sreg_I, queueVars, timer1_overflow_hi, ok, sreg_save,
                   callsite, mainVars, out, histVars, popped, hist>>

\* const uint8_t tail = buffer_tail; *out_event = capture_buffer[tail];
PopCopy ==
    /\ pc = "pop_copy"
    /\ tail' = buffer_tail
    /\ out_event' = capture_buffer[tail']
    /\ pc' = "pop_advance"
    /\ UNCHANGED <<available, acct, hwVars, sreg_I, queueVars, timer1_overflow_hi, ok, sreg_save,
                   callsite, mainVars, out, histVars, popped, hist>>

\* buffer_tail = (tail + 1) & CAPTURE_BUFFER_MASK; ok = true;
PopAdvance ==
    /\ pc = "pop_advance"
    /\ buffer_tail' = NextIndex(tail)
    /\ ok' = TRUE
    /\ popped' = Append(popped, out_event)
    /\ pc' = "pop_exit"
    /\ acct' = [acct EXCEPT !.pop_gap = Append(@, acct.since_pop),
                             !.since_pop = FALSE]
    /\ UNCHANGED <<available, hwVars, sreg_I, capture_buffer, buffer_head, dropped_events,
                   timer1_overflow_hi, tail, sreg_save, callsite, mainVars,
                   out_event, out, histVars, hist>>

\* loops that poll the queue until an event arrives
AfterPopWaitsForEvent ==
    CASE callsite = "discard" -> IF ok THEN "pop_enter" ELSE "pop_enter"
      [] callsite = "drain" ->
            IF ok THEN (IF ~logging THEN "pop_enter" ELSE "row") ELSE "pop_enter"
      [] OTHER -> "client"

\* a drain loop without the "if (!logging) continue"
AfterPopNoGate ==
    CASE callsite = "discard" -> IF ok THEN "pop_enter" ELSE "heartbeat"
      [] callsite = "drain" -> IF ok THEN "row" ELSE "loop"
      [] OTHER -> "client"

\* where main() continues after a pop: the start-of-run discard loop or the
\* per-iteration drain loop
AfterPop ==
    CASE callsite = "discard" -> IF ok THEN "pop_enter" ELSE "heartbeat"
      [] callsite = "drain" ->
            IF ok THEN (IF ~logging THEN "pop_enter" ELSE "row") ELSE "loop"
      [] OTHER -> "client"

\* ATOMIC_BLOCK exit restores SREG; return ok
PopExit ==
    /\ pc = "pop_exit"
    /\ sreg_I' = sreg_save
    /\ pc' = AfterPop
    /\ acct' = [acct EXCEPT !.entry = NoEntry]
    /\ available' = FALSE
    /\ UNCHANGED <<hwVars, queueVars, timer1_overflow_hi, popVars, callsite,
                   mainVars, out_event, out, histVars, popped, hist>>


(* ------------------------------- main() -------------------------------- *)

\* timer1_capture_now(): the 32-bit tick count, wrapping after 2^32 ticks
NowValue == [hi |-> epoch % U16, lo |-> TCNT1]

\* if (!sw2_now && sw2_prev && now >= sw2_lockout_until)
PressAccepted(level, prev, t, lockout) == ~level /\ prev /\ Geq32(t, lockout)

\* sw2_lockout_until = now + (uint32_t)SW2_DEBOUNCE_TICKS
LockoutAfter(t) == Add32(t, U32(SW2_DEBOUNCE_TICKS))

\* top of for (;;): sample the clock and the switch, accept or ignore a press
LoopTop ==
    /\ pc = "loop"
    /\ now' = NowValue
    /\ \E level \in BOOLEAN :
        /\ sw2_now' = level
        /\ IF PressAccepted(level, sw2_prev, now', sw2_lockout_until)
           THEN /\ logging' = ~logging
                /\ sw2_lockout_until' = LockoutAfter(now')
                /\ pc' = IF logging' THEN "start" ELSE "stop"
                /\ hist' = [hist EXCEPT
                              !.n_accept = IF @ < 2 THEN @ + 1 ELSE @,
                              !.bounce = /\ hist.n_accept > 0
                                         /\ Elapsed(hist.last_accept, TrueNow)
                                                < SW2_DEBOUNCE_TICKS,
                              !.last_accept = TrueNow,
                              !.run_floor = IF logging' THEN Len(stored) ELSE @,
                              !.stale = IF logging'
                                        THEN Len(stored) - Len(popped) ELSE @,
                              !.run_has_row = IF logging' THEN FALSE ELSE @]
           ELSE /\ pc' = "heartbeat"
                /\ UNCHANGED <<logging, sw2_lockout_until, hist>>
    /\ UNCHANGED <<available, acct, hwVars, sreg_I, queueVars, timer1_overflow_hi, popVars,
                   callsite, sw2_prev, last_tick, next_heartbeat, led,
                   out_event, out, histVars, popped>>

\* a start of run that leaves the queue as it is
StartRunNoDrain ==
    /\ pc = "start"
    /\ Len(out) + 2 <= MaxOut
    /\ led' = TRUE
    /\ out' = out \o <<Line("start"), Line("header")>>
    /\ last_tick' = Zero32
    /\ pc' = "heartbeat"
    /\ UNCHANGED <<available, acct, hwVars, sreg_I, queueVars, timer1_overflow_hi, popVars,
                   callsite, logging, sw2_prev, sw2_now, sw2_lockout_until,
                   next_heartbeat, now, out_event, histVars, popped, hist>>

\* Idle -> Active: LED on, start marker, column header, last_tick = 0, then
\* the discard loop
StartRun ==
    /\ pc = "start"
    /\ Len(out) + 2 <= MaxOut
    /\ led' = TRUE
    /\ out' = out \o <<Line("start"), Line("header")>>
    /\ last_tick' = Zero32
    /\ callsite' = "discard"
    /\ pc' = "pop_enter"
    /\ UNCHANGED <<available, acct, hwVars, sreg_I, queueVars, timer1_overflow_hi, popVars,
                   logging, sw2_prev, sw2_now, sw2_lockout_until,
                   next_heartbeat, now, out_event, histVars, popped, hist>>

\* Active -> Idle: LED off, stop marker
StopRun ==
    /\ pc = "stop"
    /\ Len(out) < MaxOut
    /\ led' = FALSE
    /\ out' = Append(out, Line("stop"))
    /\ pc' = "heartbeat"
    /\ UNCHANGED <<available, acct, hwVars, sreg_I, queueVars, timer1_overflow_hi, popVars,
                   callsite, logging, sw2_prev, sw2_now, sw2_lockout_until,
                   last_tick, next_heartbeat, now, out_event, histVars, popped,
                   hist>>

\* a heartbeat that does not look at the logging state
HeartbeatDueAlways(active, t, due) == Geq32(t, due)

\* if (!logging) { if (now >= next_heartbeat)
HeartbeatDue(active, t, due) == ~active /\ Geq32(t, due)

\* sw2_prev = sw2_now; the Idle heartbeat; then the drain loop
Heartbeat ==
    /\ pc = "heartbeat"
    /\ sw2_prev' = sw2_now
    /\ IF HeartbeatDue(logging, now, next_heartbeat)
       THEN /\ Len(out) < MaxOut
            /\ out' = Append(out, Line("alive"))
            /\ next_heartbeat' = Add32(now, U32(F_CPU))
            /\ hist' = [hist EXCEPT
                          !.alive_at = now,
                          !.alive_short =
                              @ \/ (/\ hist.alive_at # NoTime
                                    /\ ~Geq32(Sub32(now, hist.alive_at), U32(F_CPU)))]
       ELSE /\ UNCHANGED <<out, next_heartbeat>>
            /\ hist' = [hist EXCEPT
                          !.alive_missed =
                              @ \/ (~logging /\ Geq32(now, next_heartbeat))]
    /\ callsite' = "drain"
    /\ pc' = "pop_enter"
    /\ UNCHANGED <<available, acct, hwVars, sreg_I, queueVars, timer1_overflow_hi, popVars,
                   logging, sw2_now, sw2_lockout_until, last_tick, now, led,
                   out_event, histVars, popped>>

\* uint32_t dt = 0; if (last_tick != 0) dt = ev.ticks - last_tick;
RowDt(last, ticks) == IF last # Zero32 THEN Sub32(ticks, last) ELSE Zero32

\* (ev.edge == CAPTURE_EDGE_RISING) ? 'R' : 'F'
EdgeChar(edge) == IF edge = CAPTURE_EDGE_RISING THEN "R" ELSE "F"

\* body of the drain loop while logging: dt, last_tick, one data row with the
\* drop count read by timer1_capture_dropped()
Row ==
    /\ pc = "row"
    /\ Len(out) < MaxOut
    /\ LET dt == RowDt(last_tick, out_event.ticks)
       IN  out' = Append(out, RowLine(out_event.ticks, EdgeChar(out_event.edge),
                                      dt, dropped_events))
    /\ last_tick' = out_event.ticks
    /\ hist' = [hist EXCEPT !.run_has_row = TRUE, !.row_idx = Len(popped)]
    /\ pc' = "pop_enter"
    /\ UNCHANGED <<available, acct, hwVars, sreg_I, queueVars, timer1_overflow_hi, popVars,
                   callsite, logging, sw2_prev, sw2_now, sw2_lockout_until,
                   next_heartbeat, now, led, out_event, histVars, popped>>

(* --------------------------- specifications ---------------------------- *)

\* a caller of the capture module calls timer1_capture_pop()
ClientPop ==
    /\ pc = "client"
    /\ callsite' = "client"
    /\ pc' = "pop_enter"
    /\ UNCHANGED <<available, acct, hwVars, sreg_I, queueVars, timer1_overflow_hi, popVars,
                   mainVars, out_event, out, histVars, popped, hist>>

\* a hint that does not look at the queue
AvailableAlways ==
    /\ pc = "client"
    /\ available' = TRUE
    /\ UNCHANGED <<acct, hwVars, sreg_I, queueVars, timer1_overflow_hi, popVars, pc,
                   callsite, mainVars, out_event, out, histVars, popped, hist>>

\* the caller calls timer1_capture_available(): the comparison is made
\* inside ATOMIC_BLOCK(ATOMIC_RESTORESTATE), SREG is as before on return
Available ==
    /\ pc = "client"
    /\ available' = (buffer_head # buffer_tail)
    /\ UNCHANGED <<acct, hwVars, sreg_I, queueVars, timer1_overflow_hi, popVars, pc,
                   callsite, mainVars, out_event, out, histVars, popped, hist>>

\* the capture module, its interrupts and a caller
NextCapture ==
    \/ Tick
    \/ EdgeLatch
    \/ OvfISR
    \/ CaptISR
    \/ ClientPop
    \/ Available
    \/ PopEnter
    \/ PopCheck
    \/ PopCopy
    \/ PopAdvance
    \/ PopExit

SpecCapture == InitCapture /\ [][NextCapture]_vars

SpecClock == InitClock /\ [][NextCapture]_vars

\* inputs of the tick resolution: latched counter values and overflow counts
\* around the boundaries of the guard and of the 16-bit overflow count
CounterSamples == {0, 1, HALF_RANGE - 2, HALF_RANGE - 1, HALF_RANGE, HALF_RANGE + 1, U16 - 1}

OverflowSamples == {0, 1, U16 - 2, U16 - 1}

\* a capture pending with latched value v, overflow count h and the overflow
\* flag pending or not; the count of true wraps is h, or h + 1 once the
\* counter has wrapped without the overflow handler having run
InitResolve ==
    /\ InitCommon
    /\ pc = "client"
    /\ next_heartbeat = Zero32
    /\ env = [edges |-> 0, ticks |-> 0, prompt |-> FALSE]
    /\ ICF1 = TRUE
    /\ \E h \in OverflowSamples, v \in CounterSamples, p \in BOOLEAN :
        /\ timer1_overflow_hi = h
        /\ ICR1 = v
        /\ TOV1 = p
        /\ epoch = IF p THEN h + 1 ELSE h
        /\ TCNT1 = IF p /\ v >= HALF_RANGE THEN 0 ELSE v
        /\ latch_at = [hi |-> IF p /\ v < HALF_RANGE THEN h + 1 ELSE h, lo |-> v]

\* the capture handler applied to each such input
SpecResolve == InitResolve /\ [][CaptISR]_vars

\* the whole program
Next ==
    \/ Tick
    \/ QuietPeriods
    \/ EdgeLatch
    \/ OvfISR
    \/ CaptISR
    \/ LoopTop
    \/ StartRun
    \/ StopRun
    \/ Heartbeat
    \/ PopEnter
    \/ PopCheck
    \/ PopCopy
    \/ PopAdvance
    \/ PopExit
    \/ Row

Spec == Init /\ [][Next]_vars

\* The same firmware one second after start, Idle, when edges arriving
\* faster than the main loop gets to pop have filled the queue half a second
\* ago and the capture ISR has dropped every event since, 65535 of them: the
\* drop counter stands at its maximum.
InitDropWrap ==
    LET second == F_CPU \div U16
        burst == [i \in 0..(CAPTURE_BUFFER_SIZE - 1) |->
                    IF i < CAPTURE_BUFFER_SIZE - 1
                    THEN [ticks |-> [hi |-> second \div 2, lo |-> 128 * i],
                          edge |-> EdgeOf(i % 2 = 0)]
                    ELSE ZeroEvent]
        kept == CAPTURE_BUFFER_SIZE - 1
        last == [ticks |-> [hi |-> second, lo |-> HALF_RANGE],
                 edge |-> EdgeOf((kept + U16) % 2 = 0)]
    IN  /\ TCNT1 = HALF_RANGE /\ TOV1 = FALSE /\ ICF1 = FALSE /\ ICR1 = 0
        /\ ICES1 = ((kept + U16 - 1) % 2 = 0)
        /\ sreg_I = TRUE
        /\ capture_buffer = burst
        /\ buffer_head = kept /\ buffer_tail = 0
        /\ dropped_events = U16 - 1
        /\ timer1_overflow_hi = second
        /\ ok = FALSE /\ tail = 0 /\ sreg_save = TRUE
        /\ available = FALSE
        /\ pc = "loop" /\ callsite = "drain"
        /\ logging = FALSE /\ sw2_prev = TRUE /\ sw2_now = TRUE
        /\ sw2_lockout_until = Zero32 /\ last_tick = Zero32
        /\ next_heartbeat = U32(F_CPU)
        /\ now = [hi |-> second - 1, lo |-> 0]
        /\ out_event = ZeroEvent /\ led = FALSE
        /\ out = <<>>
        /\ epoch = second
        /\ latch_at = [hi |-> second, lo |-> HALF_RANGE]
        /\ env = [edges |-> MaxRunCaptures, ticks |-> MaxDropTicks,
                  prompt |-> TRUE]
        /\ stored = [i \in 1..kept |-> burst[i - 1]]
        /\ popped = <<>>
        /\ isr = [n |-> kept + U16 - 1, ev |-> last, kept |-> FALSE,
                  latch |-> [hi |-> second, lo |-> HALF_RANGE],
                  prev |-> [hi |-> second, lo |-> HALF_RANGE]]
        /\ lat = [capt_late |-> FALSE, ovf_late |-> FALSE, wrap_lost |-> FALSE]
        /\ hist = [n_accept |-> 0, last_accept |-> NoTime, bounce |-> FALSE,
                   run_floor |-> 0, stale |-> 0, run_has_row |-> FALSE,
                   row_idx |-> 0, alive_at |-> Zero32, alive_short |-> FALSE,
                   alive_missed |-> FALSE]
        /\ acct = [gap |-> [i \in 1..kept |-> FALSE], since_store |-> TRUE,
                   pop_gap |-> <<>>, since_pop |-> TRUE, entry |-> NoEntry]

\* the steps of main(), its calls of timer1_capture_pop included
Mainline ==
    \/ LoopTop
    \/ StartRun
    \/ StopRun
    \/ Heartbeat
    \/ PopEnter
    \/ PopCheck
    \/ PopCopy
    \/ PopAdvance
    \/ PopExit
    \/ Row

\* main() is at a write the transmitter does not accept
TxStalled ==
    \/ pc = "start" /\ Len(out) + 2 > MaxOut
    \/ pc = "stop" /\ Len(out) >= MaxOut
    \/ pc = "row" /\ Len(out) >= MaxOut
    \/ /\ pc = "heartbeat"
       /\ HeartbeatDue(logging, now, next_heartbeat)
       /\ Len(out) >= MaxOut

\* the whole program with a main loop that keeps running: whenever main()
\* can take its next step it eventually takes it
SpecLive == InitLive /\ [][Next]_vars /\ WF_vars(Mainline)

\* the same program started from InitLate, across the wrap of the tick count
SpecLate == InitLate /\ [][Next]_vars

\* the same program started from InitDropWrap, across the wrap of the drop
\* counter
SpecDropWrap == InitDropWrap /\ [][Next]_vars


(* ===================== capture module: C1 .. C5 ======================== *)

\* mainline is inside the ATOMIC_BLOCK of timer1_capture_pop
InAtomicBlock == pc \in {"pop_check", "pop_copy", "pop_advance", "pop_exit"}

\* C1: the events returned by successful pops are, in order and value, the
\* events the capture ISR stored (a prefix of them at any moment), and the
\* capture ISR never runs while pop is between its empty check, its slot copy
\* and its tail advance.
C1_FifoExact ==
    /\ [](/\ Len(popped) <= Len(stored)
          /\ popped = SubSeq(stored, 1, Len(popped)))
    /\ [][InAtomicBlock => isr'.n = isr.n]_vars

\* two different events have been popped in order and a capture is pending
\* while pop is inside its atomic block
C1_Witness ==
    /\ Len(popped) >= 2
    /\ popped[1] # popped[2]
    /\ pc = "pop_advance"
    /\ ICF1
    /\ Len(stored) >= 3

\* C2: a capture ISR invocation that finds the queue full increments the
\* drop counter by exactly one and stores nothing: head, tail and every slot
\* keep their values.
C2_DropWhenFull ==
    [][(isr'.n = isr.n + 1
          /\ (buffer_head + 1) % CAPTURE_BUFFER_SIZE = buffer_tail)
       => /\ dropped_events' = (dropped_events + 1) % U16
          /\ buffer_head' = buffer_head
          /\ buffer_tail' = buffer_tail
          /\ capture_buffer' = capture_buffer
          /\ stored' = stored]_vars

\* the ISR has just run on a full queue: the oldest events are all still
\* stored and the newest one was dropped
C2_Witness ==
    /\ isr.n = CAPTURE_BUFFER_SIZE
    /\ ~isr.kept
    /\ dropped_events = 1
    /\ Len(stored) = CAPTURE_BUFFER_SIZE - 1
    /\ (buffer_head + 1) % CAPTURE_BUFFER_SIZE = buffer_tail

\* C3: head and tail stay inside the ring, the number of events stored and
\* not yet popped equals (head - tail) mod N and lies in 0 .. N-1, the queue
\* is empty exactly when head = tail, and it is never full and empty at once.
C3_LengthInvariant ==
    LET N == CAPTURE_BUFFER_SIZE
        length == Len(stored) - Len(popped)
    IN  /\ buffer_head \in 0..(N - 1)
        /\ buffer_tail \in 0..(N - 1)
        /\ length = (buffer_head - buffer_tail + N) % N
        /\ length \in 0..(N - 1)
        /\ (length = 0) <=> (buffer_head = buffer_tail)
        /\ ~(buffer_head = buffer_tail /\ (buffer_head + 1) % N = buffer_tail)

\* the queue is full with head wrapped around behind tail
C3_Witness ==
    /\ Len(stored) - Len(popped) = CAPTURE_BUFFER_SIZE - 1
    /\ buffer_head < buffer_tail
    /\ Len(popped) >= 1

\* C4: the resolved tick is ((h+1) mod 2^16) << 16 | v when the overflow flag
\* is pending and v < 0x8000, and h << 16 | v otherwise.
C4_ResolvedTick ==
    isr.n = 1 =>
        LET h == timer1_overflow_hi
            v == ICR1
        IN  /\ isr.ev.ticks.lo = v
            /\ (TOV1 /\ v < 32768) => isr.ev.ticks.hi = (h + 1) % 65536
            /\ (~TOV1 \/ v >= 32768) => isr.ev.ticks.hi = h

\* an overflow is pending, the latched value is just below half range and
\* the overflow count is at its maximum: the high half wraps to 0
C4_Witness ==
    /\ isr.n = 1
    /\ TOV1
    /\ ICR1 = 32767
    /\ timer1_overflow_hi = 65535
    /\ isr.ev.ticks = [hi |-> 0, lo |-> 32767]

\* the tick an edge latched at true time t has to get
TrueTicks(t) == [hi |-> t.hi % U16, lo |-> t.lo]

\* C5 as claimed: with every capture handled less than half a counter period
\* after its edge and never two wraps unprocessed, each event gets the tick
\* of the true time of its edge and ticks never decrease in capture order.
C5_AsClaimed ==
    (isr.n > 0 /\ ~lat.capt_late /\ ~lat.wrap_lost) =>
        /\ isr.ev.ticks = TrueTicks(isr.latch)
        /\ isr.n > 1 => Geq32(isr.ev.ticks, isr.prev)

\* C5 amended: the same, provided also that every overflow is handled
\* before the counter reaches half range again.
C5_MonotonicTicks ==
    (isr.n > 0 /\ ~lat.capt_late /\ ~lat.ovf_late) =>
        /\ isr.ev.ticks = TrueTicks(isr.latch)
        /\ isr.n > 1 => Geq32(isr.ev.ticks, isr.prev)

\* a capture handled with the overflow still pending and a low latched value
\* got the incremented overflow count, after an earlier capture
C5_Witness ==
    /\ isr.n > 1
    /\ TOV1
    /\ isr.latch.hi = 1
    /\ isr.ev.ticks.hi = timer1_overflow_hi + 1
    /\ ~lat.capt_late /\ ~lat.ovf_late


(* ======================== main(): C6 .. C10 ============================ *)

\* C6: a press that follows an accepted press by less than the debounce
\* window SW2_DEBOUNCE_TICKS is not accepted, at whatever tick the first one
\* was accepted: the two readings give one transition.
C6_Debounce == hist.n_accept >= 2 => ~hist.bounce

\* positions of the data rows in the output
Rows == {i \in 1..Len(out) : out[i].kind = "row"}

\* C7: every data row of a run prints an event stored after the accepted
\* transition Idle -> Active: what was queued at that moment was popped and
\* discarded first.
C7_StaleDiscarded == hist.run_has_row => hist.row_idx > hist.run_floor

\* an event was waiting in the queue at the transition and a later one was
\* printed
C7_Witness ==
    /\ hist.run_has_row
    /\ hist.stale >= 1
    /\ logging
    /\ Rows # {}

\* C8: dt is 0 in the first row after the header of a run and, in every other
\* row, the row's ticks minus the ticks of the row before it, modulo 2^32.
C8_RowDelta ==
    \A i \in Rows :
        IF i > 1 /\ out[i - 1].kind = "row"
        THEN out[i].dt = Sub32(out[i].ticks, out[i - 1].ticks)
        ELSE out[i].dt = Zero32

\* C9: every data row lies after a start marker and its header and before
\* the next stop marker, and an event popped by the drain loop while Idle
\* leads back to the next pop without any output.
C9_RowsOnlyActive ==
    /\ [](\A i \in Rows :
            \E j \in 1..(i - 2) :
                /\ out[j].kind = "start"
                /\ out[j + 1].kind = "header"
                /\ \A k \in j..i : out[k].kind # "stop")
    /\ [][(pc = "pop_exit" /\ callsite = "drain" /\ ok /\ ~logging)
          => (out' = out /\ pc' \in {"pop_exit", "pop_enter"})]_vars

\* one event was stored and popped while Idle, before the run in which
\* another one was printed
C9_Witness ==
    /\ Rows # {}
    /\ hist.run_floor >= 1
    /\ hist.stale = 0
    /\ Len(popped) >= 2

\* C10: no heartbeat line lies between a start marker and the next stop
\* marker.
C10_NoHeartbeatWhileActive ==
    \A i \in 1..Len(out) :
        out[i].kind = "alive" =>
            \A j \in 1..(i - 1) :
                out[j].kind = "start" =>
                    \E k \in (j + 1)..(i - 1) : out[k].kind = "stop"

\* a heartbeat was due while Active and was not emitted
C10_Witness ==
    /\ pc = "pop_enter"
    /\ callsite = "drain"
    /\ logging
    /\ Geq32(now, next_heartbeat)
    /\ out[Len(out)].kind = "header"


(* ===================== capture module: C11 .. C15, C17, C20 ====================== *)

\* C11 as claimed: two events returned by consecutive pops have opposite
\* edges whenever the drop counter did not change from the return of the
\* first pop to the return of the second.
C11_AsClaimed ==
    \A k \in 2..Len(popped) :
        ~acct.pop_gap[k] => popped[k].edge # popped[k - 1].edge

\* C11: two events returned by consecutive pops have opposite edges whenever
\* the drop counter did not change between the capture ISR invocation that
\* stored the first and the one that stored the second.
C11_AlternatesWithoutDrops ==
    /\ Len(acct.gap) = Len(stored)
    /\ \A k \in 2..Len(popped) :
        ~acct.gap[k] => popped[k].edge # popped[k - 1].edge

\* after a drop, events stored on both sides of it and events stored with no
\* drop between them have been popped
C11_Witness ==
    /\ Len(popped) >= 3
    /\ dropped_events >= 1
    /\ \E k \in 2..Len(popped) : acct.gap[k]
    /\ \E k \in 2..Len(popped) : ~acct.gap[k]

\* C12: the number of capture ISR invocations equals the number of events
\* stored plus the number of drop-counter increments; each invocation either
\* stores one event or increments the drop counter, never both, and the drop
\* counter changes only in an invocation that found the queue full.
C12_EveryCaptureAccounted ==
    /\ [](dropped_events = (isr.n - Len(stored)) % U16)
    /\ [][isr'.n = isr.n + 1 =>
            IF (buffer_head + 1) % CAPTURE_BUFFER_SIZE = buffer_tail
            THEN /\ dropped_events' = (dropped_events + 1) % U16
                 /\ stored' = stored
            ELSE /\ dropped_events' = dropped_events
                 /\ Len(stored') = Len(stored) + 1]_vars
    /\ [][dropped_events' # dropped_events =>
            /\ isr'.n = isr.n + 1
            /\ (buffer_head + 1) % CAPTURE_BUFFER_SIZE = buffer_tail]_vars

\* captures and pops have alternated, one capture was dropped and a later
\* one was stored again
C12_Witness ==
    /\ isr.n = 5
    /\ Len(stored) = 4
    /\ dropped_events = 1
    /\ isr.kept
    /\ Len(popped) >= 1

\* C13: as long as no pop has removed an event since init, k capture ISR
\* invocations have stored min(k, N-1) events, all of them still queued, and
\* have dropped max(0, k-(N-1)).
C13_FillFromEmpty ==
    popped = <<>> =>
        LET N == CAPTURE_BUFFER_SIZE
            k == isr.n
            kept == IF k < N - 1 THEN k ELSE N - 1
        IN  /\ Len(stored) = kept
            /\ (buffer_head - buffer_tail + N) % N = kept
            /\ dropped_events = k - kept

\* the capacity-4 queue after 4 captures and no pop: 3 events stored, 1 dropped
C13_Witness ==
    /\ CAPTURE_BUFFER_SIZE = 4
    /\ popped = <<>>
    /\ isr.n = 4
    /\ Len(stored) = 3
    /\ buffer_head = 3 /\ buffer_tail = 0
    /\ dropped_events = 1

\* mainline is inside a call of timer1_capture_pop
InPop == pc \in {"pop_enter", "pop_check", "pop_copy", "pop_advance", "pop_exit"}

\* C14: a pop entered with head = tail returns false with head, tail, the
\* buffer, the drop counter and the caller's event as they were on entry; a
\* pop entered with head # tail returns true with the oldest event and tail
\* advanced by one modulo N; and no step of a pop waits for anything.
C14_PopContract ==
    /\ pc = "pop_exit" =>
        LET e == acct.entry
        IN  /\ e.head >= 0
            /\ buffer_head = e.head
            /\ capture_buffer = e.buf
            /\ dropped_events = e.dropped
            /\ IF e.head = e.tail
               THEN /\ ~ok
                    /\ buffer_tail = e.tail
                    /\ out_event = e.ev
               ELSE /\ ok
                    /\ buffer_tail = (e.tail + 1) % CAPTURE_BUFFER_SIZE
                    /\ out_event = e.buf[e.tail]
    /\ InPop => ENABLED (PopEnter \/ PopCheck \/ PopCopy \/ PopAdvance \/ PopExit)

\* a pop is returning false from a queue that earlier pops have emptied,
\* the caller's event still holding what the last successful pop returned
C14_Witness ==
    /\ pc = "pop_exit"
    /\ ~ok
    /\ acct.entry.head = acct.entry.tail
    /\ acct.entry.head > 0
    /\ Len(popped) >= 1
    /\ out_event = popped[Len(popped)]
    /\ out_event # ZeroEvent

C17_EdgeBeforeToggle ==
    /\ [][isr'.n = isr.n + 1 =>
            /\ isr'.ev.edge = (IF ICES1 THEN CAPTURE_EDGE_RISING
                                        ELSE CAPTURE_EDGE_FALLING)
            /\ ~ICF1'
            /\ ICES1' = ~ICES1
            /\ isr.n >= 1 => isr'.ev.edge # isr.ev.edge]_vars
    /\ [][ICES1' # ICES1 => isr'.n = isr.n + 1]_vars

\* two invocations in a row have dropped their events, the second one having
\* recorded a rising edge and armed the falling one
C17_Witness ==
    /\ isr.n = 5
    /\ ~isr.kept
    /\ dropped_events = 2
    /\ isr.ev.edge = CAPTURE_EDGE_RISING
    /\ ~ICES1
    /\ ~ICF1

\* C20: a call of timer1_capture_available changes neither the queue nor the
\* drop counter, the caller's event or the interrupt enable; and when it
\* returned true, the next pop returns true, whatever captures were handled
\* in between.
C20_AvailableThenPop ==
    /\ [][(pc = "client" /\ pc' = "client" /\ available' # available) =>
            /\ UNCHANGED <<capture_buffer, buffer_head, buffer_tail,
                           dropped_events, out_event, sreg_I>>
            /\ available' = (buffer_head # buffer_tail)]_vars
    /\ [](pc = "pop_exit" /\ available => ok)

\* available returned true and the pop that followed is returning true, in
\* a run where the latest capture found the queue full and was dropped
C20_Witness ==
    /\ pc = "pop_exit"
    /\ available
    /\ ok
    /\ acct.since_store
    /\ Len(popped) >= 2

(* ======================== main(): C16, C18, C19 ======================== *)

\* C16: unless main() ends up at a write the transmitter never accepts, every
\* stored event is eventually popped, whether it was stored while Idle or
\* during a run: again and again all the events stored so far have been
\* popped, so an event stored at any moment is among the popped ones at a
\* later one.  And every call of timer1_capture_pop is eventually followed
\* by the end of the loop that made it: the discard loop reaches the rest of
\* the iteration, the drain loop the top of the main loop.
C16_EventuallyPopped ==
    \/ <>[]TxStalled
    \/ /\ []<>(Len(popped) = Len(stored))
       /\ [](pc = "pop_enter" => <>(pc \in {"heartbeat", "loop"}))

\* one event stored while Idle and one stored during a run have both been
\* popped, and main() is back at the top of its loop with the queue empty
C16_Witness ==
    /\ pc = "loop"
    /\ Len(stored) = 2
    /\ Len(popped) = 2
    /\ hist.run_floor = 1
    /\ hist.stale = 0
    /\ hist.run_has_row
    /\ hist.row_idx = 2

\* C18: a heartbeat follows the heartbeat before it by at least one period of
\* F_CPU ticks of the mainline tick value, and no Idle iteration whose tick
\* is at or past the scheduled tick goes without one.
C18_HeartbeatPeriod == ~hist.alive_short /\ ~hist.alive_missed

\* C19: the drop counter stays within 16 bits and changes only in a capture
\* ISR invocation, from d to (d + 1) mod 65536: 65535 is followed by 0, and
\* no pop, no read of the counter for a row and no start or stop of a run
\* changes it.
C19_DropCounterWraps ==
    /\ [](dropped_events \in 0..65535)
    /\ [][isr'.n = isr.n + 1 =>
            dropped_events' = IF isr'.kept THEN dropped_events
                              ELSE (dropped_events + 1) % 65536]_vars
    /\ [][dropped_events' # dropped_events => isr'.n = isr.n + 1]_vars
    /\ [][(popped' # popped \/ out' # out \/ logging' # logging \/ pc' # pc)
            => dropped_events' = dropped_events]_vars

\* the counter has wrapped from 65535 to 0, a run was started after that and
\* its first row shows the wrapped count
C19_Witness ==
    /\ dropped_events = 0
    /\ isr.n > 65536
    /\ logging
    /\ \E i \in 1..Len(out) : out[i].kind = "row" /\ out[i].dropped = 0

====
